---- MODULE Spec2Model ----
(***************************************************************************)
(* A model of app.py, the Smart Diet Planner: the credential store, the    *)
(* plan generator (extract_json, generate_diet), the plan normalizer       *)
(* (normalize_diet_plan), the daily tracker's save handler and the weekly  *)
(* chart.                                                                  *)
(*                                                                         *)
(* Data.  A JSON / Python value is a record [t, n, cs, kids]:              *)
(*   t    the type tag: "null" (None), "bool", "int", "float", "str",      *)
(*        "list", "obj" (dict);                                            *)
(*   n    the number of an int, 1/0 of a bool, the integer part of a float;*)
(*   cs   the characters of a str (a sequence of one-character strings),   *)
(*        the fraction digits of a float;                                  *)
(*   kids the items of a list, or the [k, v] pairs of a dict in insertion  *)
(*        order.                                                           *)
(* A provider response is a sequence of tokens [t, k, n, cs]: the JSON     *)
(* punctuation, "key" (a string followed by a colon), the scalars, "word"  *)
(* (any prose that holds no brace) and the two code-fence markers.         *)
(***************************************************************************)
EXTENDS Integers, Sequences, FiniteSets, TLC

\* ------------------------------------------------------------ values

JNull == [t |-> "null", n |-> 0, cs |-> <<>>, kids |-> <<>>]
JBool(b) == [t |-> "bool", n |-> IF b THEN 1 ELSE 0, cs |-> <<>>, kids |-> <<>>]
JInt(i) == [t |-> "int", n |-> i, cs |-> <<>>, kids |-> <<>>]
JFloat(i, frac) == [t |-> "float", n |-> i, cs |-> frac, kids |-> <<>>]
JStr(chars) == [t |-> "str", n |-> 0, cs |-> chars, kids |-> <<>>]
JList(items) == [t |-> "list", n |-> 0, cs |-> <<>>, kids |-> items]
JObj(pairs) == [t |-> "obj", n |-> 0, cs |-> <<>>, kids |-> pairs]

\* Python truthiness: None, False, 0, 0.0, "", [] and {} are false.
Truthy(v) ==
    CASE v.t = "null" -> FALSE
      [] v.t = "bool" -> v.n = 1
      [] v.t = "int" -> v.n # 0
      [] v.t = "float" -> v.n # 0 \/ \E i \in 1..Len(v.cs) : v.cs[i] # "0"
      [] v.t = "str" -> v.cs # <<>>
      [] OTHER -> v.kids # <<>>

\* Python's (a or b): a when a is truthy, else b.
PyOr(a, b) == IF Truthy(a) THEN a ELSE b

\* dict.get(key): the value under key, None when the key is absent.
DictGet(obj, key) ==
    LET hits == {i \in 1..Len(obj.kids) : obj.kids[i].k = key}
    IN IF hits = {} THEN JNull ELSE obj.kids[CHOOSE i \in hits : TRUE].v

\* d[key] = val on an insertion-ordered dict whose keys are distinct.
DictPut(pairs, key, val) ==
    IF \E i \in 1..Len(pairs) : pairs[i].k = key
    THEN [i \in 1..Len(pairs) |->
            IF pairs[i].k = key THEN [k |-> key, v |-> val] ELSE pairs[i]]
    ELSE Append(pairs, [k |-> key, v |-> val])

\* ------------------------------------------------------------ tokens

Tok(type) == [t |-> type, k |-> "", n |-> 0, cs |-> <<>>]
TKey(key) == [t |-> "key", k |-> key, n |-> 0, cs |-> <<>>]
TStr(chars) == [t |-> "str", k |-> "", n |-> 0, cs |-> chars]
TInt(i) == [t |-> "int", k |-> "", n |-> i, cs |-> <<>>]
TFloat(i, frac) == [t |-> "float", k |-> "", n |-> i, cs |-> frac]
LB == Tok("{")
RB == Tok("}")
LS == Tok("[")
RS == Tok("]")
Comma == Tok(",")
Word == Tok("word")
Fence == Tok("fence")
FenceJson == Tok("fencejson")

\* json.loads on a token span: a recursive-descent parser.  Each parser
\* returns [ok, v, nxt]: whether a value starts at position i, the value, and
\* the position after it.
RECURSIVE ParseValue(_, _), ParseMembers(_, _, _), ParseItems(_, _, _)

ParseFail == [ok |-> FALSE, v |-> JNull, nxt |-> 0]

ParseValue(toks, i) ==
    IF i > Len(toks) THEN ParseFail
    ELSE LET tk == toks[i]
         IN CASE tk.t = "null" -> [ok |-> TRUE, v |-> JNull, nxt |-> i + 1]
              [] tk.t = "true" -> [ok |-> TRUE, v |-> JBool(TRUE), nxt |-> i + 1]
              [] tk.t = "false" -> [ok |-> TRUE, v |-> JBool(FALSE), nxt |-> i + 1]
              [] tk.t = "int" -> [ok |-> TRUE, v |-> JInt(tk.n), nxt |-> i + 1]
              [] tk.t = "float" -> [ok |-> TRUE, v |-> JFloat(tk.n, tk.cs), nxt |-> i + 1]
              [] tk.t = "str" -> [ok |-> TRUE, v |-> JStr(tk.cs), nxt |-> i + 1]
              [] tk.t = "{" ->
                   IF i + 1 <= Len(toks) /\ toks[i + 1].t = "}"
                   THEN [ok |-> TRUE, v |-> JObj(<<>>), nxt |-> i + 2]
                   ELSE ParseMembers(toks, i + 1, <<>>)
              [] tk.t = "[" ->
                   IF i + 1 <= Len(toks) /\ toks[i + 1].t = "]"
                   THEN [ok |-> TRUE, v |-> JList(<<>>), nxt |-> i + 2]
                   ELSE ParseItems(toks, i + 1, <<>>)
              [] OTHER -> ParseFail

\* key value { "," key value } "}" ; a repeated key keeps its last value.
ParseMembers(toks, i, acc) ==
    IF i > Len(toks) \/ toks[i].t # "key" THEN ParseFail
    ELSE LET r == ParseValue(toks, i + 1)
         IN IF ~r.ok \/ r.nxt > Len(toks) THEN ParseFail
            ELSE LET acc2 == DictPut(acc, toks[i].k, r.v)
                 IN CASE toks[r.nxt].t = "}" ->
                           [ok |-> TRUE, v |-> JObj(acc2), nxt |-> r.nxt + 1]
                      [] toks[r.nxt].t = "," -> ParseMembers(toks, r.nxt + 1, acc2)
                      [] OTHER -> ParseFail

\* value { "," value } "]"
ParseItems(toks, i, acc) ==
    LET r == ParseValue(toks, i)
    IN IF ~r.ok \/ r.nxt > Len(toks) THEN ParseFail
       ELSE LET acc2 == Append(acc, r.v)
            IN CASE toks[r.nxt].t = "]" ->
                      [ok |-> TRUE, v |-> JList(acc2), nxt |-> r.nxt + 1]
                 [] toks[r.nxt].t = "," -> ParseItems(toks, r.nxt + 1, acc2)
                 [] OTHER -> ParseFail

\* json.loads(span) inside try/except: the value when the whole span is one
\* JSON value, None when json.loads raises (no value, or extra data after it).
JsonLoads(span) ==
    LET r == ParseValue(span, 1)
    IN IF r.ok /\ r.nxt = Len(span) + 1 THEN r.v ELSE JNull

\* text.replace(FENCE + "json", "").replace(FENCE, ""), FENCE being three backquotes
StripFences(text) == SelectSeq(text, LAMBDA tk : tk.t \notin {"fence", "fencejson"})

\* re.search(r"\{[\s\S]*\}", text): the leftmost "{" and, the star being
\* greedy, the last "}" of the text; no match unless the one precedes the other.
RegexSpan(text) ==
    LET opens == {i \in 1..Len(text) : text[i].t = "{"}
        closes == {i \in 1..Len(text) : text[i].t = "}"}
    IN IF opens = {} \/ closes = {} THEN <<>>
       ELSE LET first == CHOOSE i \in opens : \A j \in opens : i <= j
                last == CHOOSE i \in closes : \A j \in closes : j <= i
            IN IF first < last THEN SubSeq(text, first, last) ELSE <<>>

extract_json(text) ==
    LET span == RegexSpan(StripFences(text))
    IN IF span = <<>> THEN JNull ELSE JsonLoads(span)

\* ------------------------------------------------------------ characters

Digits == <<"0", "1", "2", "3", "4", "5", "6", "7", "8", "9">>

IsDigit(c) == \E d \in 1..10 : Digits[d] = c

DigitVal(c) == (CHOOSE d \in 1..10 : Digits[d] = c) - 1

RECURSIVE NatChars(_)
\* str(n) for n >= 0
NatChars(n) == IF n < 10 THEN <<Digits[n + 1]>> ELSE NatChars(n \div 10) \o <<Digits[(n % 10) + 1]>>

IntChars(i) == IF i < 0 THEN <<"-">> \o NatChars(-i) ELSE NatChars(i)

\* str(v).  The repr of a list or a dict is cut to its brackets: whatever
\* it holds, it starts with a bracket and int() rejects it.
PyStr(v) ==
    CASE v.t = "null" -> <<"N", "o", "n", "e">>
      [] v.t = "bool" -> IF v.n = 1 THEN <<"T", "r", "u", "e">> ELSE <<"F", "a", "l", "s", "e">>
      [] v.t = "int" -> IntChars(v.n)
      [] v.t = "float" -> IntChars(v.n) \o <<".">> \o v.cs
      [] v.t = "str" -> v.cs
      [] v.t = "list" -> <<"[", "]">>
      [] OTHER -> <<"{", "}">>

RECURSIVE RemoveKcal(_)
\* s.replace("kcal", ""): every occurrence, left to right, without rescanning.
RemoveKcal(s) ==
    IF Len(s) < 4 THEN s
    ELSE IF SubSeq(s, 1, 4) = <<"k", "c", "a", "l">>
         THEN RemoveKcal(SubSeq(s, 5, Len(s)))
         ELSE <<s[1]>> \o RemoveKcal(SubSeq(s, 2, Len(s)))

\* s.strip(): the blanks at both ends go.
Strip(s) ==
    LET solid == {i \in 1..Len(s) : s[i] # " "}
    IN IF solid = {} THEN <<>>
       ELSE SubSeq(s, CHOOSE i \in solid : \A j \in solid : i <= j,
                      CHOOSE i \in solid : \A j \in solid : j <= i)

RECURSIVE DigitsVal(_, _)
DigitsVal(s, acc) == IF s = <<>> THEN acc ELSE DigitsVal(Tail(s), 10 * acc + DigitVal(s[1]))

\* int(s) inside try/except: an optional sign and one or more digits; ok is
\* FALSE where int() raises ValueError.  (The model's strings hold no
\* underscore and no non-ASCII digit.)
PyInt(s) ==
    LET signed == s # <<>> /\ s[1] \in {"+", "-"}
        body == IF signed THEN Tail(s) ELSE s
    IN IF body = <<>> \/ \E i \in 1..Len(body) : ~IsDigit(body[i])
       THEN [ok |-> FALSE, n |-> 0]
       ELSE [ok |-> TRUE,
             n |-> IF signed /\ s[1] = "-" THEN -DigitsVal(body, 0) ELSE DigitsVal(body, 0)]

\* ------------------------------------------------------------ normalizer

VALID_DAYS == <<"Monday", "Tuesday", "Wednesday",
                "Thursday", "Friday", "Saturday", "Sunday">>

DefaultQuantity == JStr(<<"1", " ", "s", "e", "r", "v", "i", "n", "g">>)

\* int(str(cal).replace("kcal", "").strip())
CoerceCalories(cal) == PyInt(Strip(RemoveKcal(PyStr(cal))))

\* the loop body with "cal >= 0" for "cal > 0"
CleanMeal_keep_zero(m) ==
    LET dish == PyOr(PyOr(DictGet(m, "dish"), DictGet(m, "meal")), DictGet(m, "item"))
        qty == PyOr(PyOr(DictGet(m, "standard_quantity"), DictGet(m, "quantity")),
                    DefaultQuantity)
        cal == PyOr(PyOr(DictGet(m, "calories"), DictGet(m, "kcal")), DictGet(m, "cal"))
        c == CoerceCalories(cal)
    IN [keep |-> c.ok /\ Truthy(dish) /\ c.n >= 0,
        meal |-> [dish |-> dish, standard_quantity |-> qty, calories |-> c.n]]

\* The body of the loop over a day's meals, for one entry m (a dict): the
\* coalesced fields, and whether the entry is appended to clean.
CleanMeal(m) ==
    LET dish == PyOr(PyOr(DictGet(m, "dish"), DictGet(m, "meal")), DictGet(m, "item"))
        qty == PyOr(PyOr(DictGet(m, "standard_quantity"), DictGet(m, "quantity")),
                    DefaultQuantity)
        cal == PyOr(PyOr(DictGet(m, "calories"), DictGet(m, "kcal")), DictGet(m, "cal"))
        c == CoerceCalories(cal)
    IN [keep |-> c.ok /\ Truthy(dish) /\ c.n > 0,
        meal |-> [dish |-> dish, standard_quantity |-> qty, calories |-> c.n]]

RECURSIVE CleanMeals(_)
\* clean, for the list meals
CleanMeals(meals) ==
    IF meals = <<>> THEN <<>>
    ELSE LET r == CleanMeal(meals[1])
         IN (IF r.keep THEN <<r.meal>> ELSE <<>>) \o CleanMeals(Tail(meals))

RECURSIVE Unwrap_every_level(_)
\* the unwrapping as a loop: "while" for "if"
Unwrap_every_level(raw) ==
    IF Len(raw.kids) = 1 /\ raw.kids[1].v.t = "obj"
    THEN Unwrap_every_level(raw.kids[1].v)
    ELSE raw

\* if len(raw) == 1 and isinstance(list(raw.values())[0], dict): raw = that value
Unwrap(raw) ==
    IF Len(raw.kids) = 1 /\ raw.kids[1].v.t = "obj" THEN raw.kids[1].v ELSE raw

NoPlan == [d \in {} |-> <<>>]

\* The loop over VALID_DAYS on the dict obj: final, a function from the days
\* kept to their clean lists, and whether m.get raised on an entry that is no
\* dict (AttributeError, which nothing catches).
WeekdayLookup(obj) ==
    LET lists == {i \in 1..7 : DictGet(obj, VALID_DAYS[i]).t = "list"}
        kept == {i \in lists : CleanMeals(DictGet(obj, VALID_DAYS[i]).kids) # <<>>}
        raised == \E i \in lists : \E j \in 1..Len(DictGet(obj, VALID_DAYS[i]).kids) :
                      DictGet(obj, VALID_DAYS[i]).kids[j].t # "obj"
    IN [raised |-> raised,
        final |-> [d \in {VALID_DAYS[i] : i \in kept} |-> CleanMeals(DictGet(obj, d).kids)]]

\* normalize_diet_plan without its "if not final" test
normalize_return_empty(raw) ==
    LET r == WeekdayLookup(Unwrap(raw))
    IN IF r.raised THEN [status |-> "raised", plan |-> NoPlan]
       ELSE [status |-> "returned", plan |-> r.final]

\* normalize_diet_plan(raw), raw a non-empty dict.  status is "returned" (with
\* the plan), "stopped" (st.error and st.stop(): the script run ends) or
\* "raised" (an uncaught exception: the script run ends).
normalize_diet_plan(raw) ==
    LET r == WeekdayLookup(Unwrap(raw))
    IN IF r.raised THEN [status |-> "raised", plan |-> NoPlan]
       ELSE IF DOMAIN r.final = {} THEN [status |-> "stopped", plan |-> NoPlan]
       ELSE [status |-> "returned", plan |-> r.final]

\* ------------------------------------------------------------ state

VARIABLES
    users,      \* data/users.json: a function from the registered emails to digests
    diets,      \* data/diet_plans.json: email -> [has, plan], has FALSE where absent
    history,    \* data/history.json: email -> the [k: date, v: record] pairs, in
                \* insertion order (the empty sequence where the email is absent)
    session,    \* st.session_state of each browser session: [user, diet]
    clock,      \* the IST calendar date, as a day number (day 1 is a Monday)
    ret,        \* what the last handler was given and what it answered
    first,      \* history variable: the digest each email's first successful signup stored
    text,       \* a provider response handed to extract_json
    parsed,     \* [done, v]: what extract_json returned for text
    raw,        \* a parsed object handed to normalize_diet_plan
    nres,       \* [status, plan]: how normalize_diet_plan(raw) ended
    pc,         \* per session, the position inside an interleaved save handler
    local,      \* per session, the history document that handler loaded
    pending,    \* per session, the [date, rec] that handler is writing
    written,    \* history variable: the [user, date] whose writes completed
    chart       \* what the weekly chart section last plotted

vars == <<users, diets, history, session, clock, ret, first, text, parsed, raw, nres,
          pc, local, pending, written, chart>>

Sessions == {1, 2}

Emails == {"", "a@x.com", "b@x.com"}

\* the longest password a form submits
MaxPwdLen == 1

PwdChars == {"p", "q"}

RECURSIVE SeqsUpTo(_, _)
\* the sequences over S of length at most n
SeqsUpTo(S, n) ==
    IF n = 0 THEN {<<>>}
    ELSE LET shorter == SeqsUpTo(S, n - 1)
         IN shorter \cup {Append(q, x) : q \in shorter, x \in S}

Passwords == SeqsUpTo(PwdChars, MaxPwdLen)

NoUser == [set |-> FALSE, email |-> ""]
NoDiet == [has |-> FALSE, plan |-> NoPlan]
SomeDiet(plan) == [has |-> TRUE, plan |-> plan]

\* for k in ["user", "diet"]: st.session_state[k] = None
NewSession == [user |-> NoUser, diet |-> NoDiet]

\* the truth value of st.session_state.user: None and "" are false
UserTruthy(s) == session[s].user.set /\ session[s].user.email # ""

\* the truth value of st.session_state.diet: None and {} are false
DietTruthy(s) == session[s].diet.has /\ DOMAIN session[s].diet.plan # {}

Idle == [op |-> "none"]

\* ------------------------------------------------------------ auth

CharCode(c) == CHOOSE i \in 1..2 : <<"p", "q">>[i] = c

RECURSIVE Digest(_, _)
Digest(s, h) == IF s = <<>> THEN h ELSE Digest(Tail(s), (h * 31 + CharCode(s[1])) % 65536)

\* hashlib.sha256(pwd.encode()).hexdigest(), abstracted to a deterministic
\* digest of the password's characters that is not the password itself.
hash_password(pwd) == Digest(pwd, 7)

\* signup without its "if email in users" test
signup_overwrite(doc, email, password) ==
    [result |-> TRUE,
     users |-> [e \in DOMAIN doc \cup {email} |->
                   IF e = email THEN hash_password(password) ELSE doc[e]]]

\* signup(email, password) on the loaded document: the value returned and
\* the document on disk afterwards.
signup(doc, email, password) ==
    IF email \in DOMAIN doc
    THEN [result |-> FALSE, users |-> doc]
    ELSE [result |-> TRUE,
          users |-> [e \in DOMAIN doc \cup {email} |->
                        IF e = email THEN hash_password(password) ELSE doc[e]]]

\* login without the comparison of the digests
login_any_password(doc, email, password) == email \in DOMAIN doc

login(doc, email, password) ==
    email \in DOMAIN doc /\ doc[email] = hash_password(password)

\* The "Create Account" button, shown while no user is logged in.
Signup(s, email, pwd) ==
    /\ ~UserTruthy(s)
    /\ LET r == signup(users, email, pwd)
       IN /\ users' = r.users
          /\ ret' = [op |-> "signup", s |-> s, email |-> email, pwd |-> pwd,
                     result |-> r.result]
          /\ first' = IF r.result /\ email \notin DOMAIN first
                      THEN [e \in DOMAIN first \cup {email} |->
                               IF e = email THEN hash_password(pwd) ELSE first[e]]
                      ELSE first
    /\ UNCHANGED <<diets, history, session, clock, text, parsed, raw, nres,
                   pc, local, pending, written, chart>>

\* st.session_state.user = email; st.session_state.diet = the plan on file
LoggedIn(email, diet) == [user |-> [set |-> TRUE, email |-> email], diet |-> diet]

\* The session state the "Login" button leaves, given login's answer.
LoginEffect(s, email, ok) ==
    IF ok THEN [session EXCEPT ![s] = LoggedIn(email, diets[email])] ELSE session

\* The "Login" button, shown while no user is logged in.
Login(s, email, pwd) ==
    /\ ~UserTruthy(s)
    /\ LET ok == login(users, email, pwd)
       IN /\ session' = LoginEffect(s, email, ok)
          /\ ret' = [op |-> "login", s |-> s, email |-> email, pwd |-> pwd,
                     result |-> ok]
    /\ UNCHANGED <<users, diets, history, clock, first, text, parsed, raw, nres,
                   pc, local, pending, written, chart>>

\* A browser (re)connects: Streamlit hands the script a fresh session state.
Reconnect(s) ==
    /\ session[s] # NewSession
    /\ pc[s] = "idle"
    /\ session' = [session EXCEPT ![s] = NewSession]
    /\ ret' = [op |-> "reconnect", s |-> s]
    /\ UNCHANGED <<users, diets, history, clock, first, text, parsed, raw, nres,
                   pc, local, pending, written, chart>>

NoUsers == [e \in {} |-> 0]

NoRecord == [day |-> "", planned |-> 0, consumed |-> 0]

NoChart == [shown |-> FALSE, dates |-> <<>>, labels |-> <<>>, planned |-> <<>>, consumed |-> <<>>]

\* The parts of the state a specification leaves alone start here.
IdleExtract == text = <<>> /\ parsed = [done |-> FALSE, v |-> JNull]

IdleNorm == raw = JNull /\ nres = [status |-> "none", plan |-> NoPlan]

IdleRace ==
    /\ pc = [s \in Sessions |-> "idle"]
    /\ local = [s \in Sessions |-> [e \in Emails |-> <<>>]]
    /\ pending = [s \in Sessions |-> [date |-> 0, rec |-> NoRecord]]
    /\ written = {}

IdleChart == chart = NoChart

NoFiles ==
    /\ users = NoUsers
    /\ first = NoUsers
    /\ diets = [e \in Emails |-> NoDiet]
    /\ history = [e \in Emails |-> <<>>]

\* The application as first deployed: no data file exists yet.
InitAuth ==
    /\ NoFiles
    /\ session = [s \in Sessions |-> NewSession]
    /\ clock = 1
    /\ ret = Idle
    /\ IdleExtract /\ IdleNorm /\ IdleRace /\ IdleChart

NextAuth ==
    \/ \E e \in Emails, p \in Passwords : Signup(1, e, p)
    \/ \E e \in Emails, p \in Passwords : Login(1, e, p)
    \/ Reconnect(1)

SpecAuth == InitAuth /\ [][NextAuth]_vars

\* ------------------------------------------------------------ normalizer runs

\* the most entries a day's list holds in a generated input
MaxMeals == 2

\* the most envelope keys around a generated plan
MaxWrap == 2

P(key, val) == [k |-> key, v |-> val]

Chars2 == <<"2", "5", "k", "c", "a", "l">>

\* the entries of a day's list: meal dicts under the field names the
\* normalizer accepts, with calories that do and do not coerce, and an entry
\* that is no dict
Entries ==
    { JObj(<<P("dish", JStr(<<"P">>)), P("calories", JInt(25))>>),
      JObj(<<P("dish", JStr(<<"P">>)), P("calories", JStr(Chars2))>>),
      JObj(<<P("dish", JStr(<<"P">>)), P("calories", JInt(0)), P("kcal", JInt(40))>>),
      JObj(<<P("dish", JStr(<<"P">>)), P("calories", JInt(0))>>),
      JObj(<<P("dish", JStr(<<"P">>)), P("calories", JStr(<<"0">>))>>),
      JObj(<<P("dish", JStr(<<"P">>)), P("calories", JStr(<<"-", "7">>))>>),
      JObj(<<P("dish", JStr(<<"P">>)), P("calories", JFloat(2, <<"5">>))>>),
      JObj(<<P("dish", JStr(<<>>)), P("meal", JStr(<<"T">>)), P("quantity", JStr(<<"2">>)),
             P("cal", JStr(<<" ", "3", "0", " ">>))>>),
      JObj(<<P("calories", JInt(25))>>),
      JObj(<<P("item", JInt(5)), P("standard_quantity", JStr(<<"c", "u", "p">>)),
             P("calories", JStr(<<"k", "c", "a", "l">>))>>),
      JObj(<<P("dish", JStr(<<"P">>)), P("kcal", JStr(<<"1", "2", " ", "k", "c", "a", "l">>))>>),
      JObj(<<P("dish", JStr(<<"P">>))>>),
      JInt(1) }

GoodList == JList(<<JObj(<<P("dish", JStr(<<"R">>)), P("calories", JInt(30))>>)>>)

\* the values under a day's key: lists of entries, and values that are no list
DayVals ==
    { JList(l) : l \in SeqsUpTo(Entries, MaxMeals) }
    \cup { JNull, JStr(<<"x">>), JObj(<<P("Tuesday", GoodList)>>) }

KeyForms(dv) ==
    { <<P("Monday", dv)>>,
      <<P("Sunday", dv)>>,
      <<P("monday", dv)>>,
      <<P("Monday", dv), P("Wednesday", GoodList)>>,
      <<P("note", JStr(<<"x">>)), P("Tuesday", dv)>> }

RECURSIVE Wrap(_, _)
\* v inside w envelope objects
Wrap(v, w) == IF w = 0 THEN v ELSE JObj(<<P("plan", Wrap(v, w - 1))>>)

RawInputs == { Wrap(JObj(kf), w) : kf \in UNION { KeyForms(dv) : dv \in DayVals },
                                   w \in 0..MaxWrap }

\* One call of normalize_diet_plan.
NormalizeStep ==
    /\ nres.status = "none"
    /\ nres' = normalize_diet_plan(raw)
    /\ ret' = [op |-> "normalize"]
    /\ UNCHANGED <<users, diets, history, session, clock, first, text, parsed, raw,
                   pc, local, pending, written, chart>>

InitNorm ==
    /\ NoFiles
    /\ session = [s \in Sessions |-> NewSession]
    /\ clock = 1
    /\ ret = Idle
    /\ raw \in RawInputs
    /\ nres = [status |-> "none", plan |-> NoPlan]
    /\ IdleExtract /\ IdleRace /\ IdleChart

NextNorm == NormalizeStep

SpecNorm == InitNorm /\ [][NextNorm]_vars

\* ------------------------------------------------------------ generator

\* range(3) for range(2)
Attempts_three == 1 + 2

\* for _ in range(2)
Attempts == 2

RECURSIVE Attempt(_, _)
\* The loop of generate_diet from attempt i on, rs[i] being what the provider
\* answers to the i-th request: [err, text], err where generate_content (or
\* res.text) raises.  requests counts the requests made; found is the object
\* handed to normalize_diet_plan (None where none was); outcome is "ok" (plan
\* returned), "invalid" (normalize_diet_plan stopped the run), "raised" (an
\* uncaught exception ended the run) or "failed" (st.error and st.stop()
\* after the loop).
Attempt(rs, i) ==
    IF i > Attempts
    THEN [requests |-> Attempts, outcome |-> "failed", found |-> JNull, plan |-> NoPlan]
    ELSE IF rs[i].err
    THEN [requests |-> i, outcome |-> "raised", found |-> JNull, plan |-> NoPlan]
    ELSE LET found == extract_json(rs[i].text)
         IN IF Truthy(found)
            THEN LET n == normalize_diet_plan(found)
                 IN [requests |-> i,
                     outcome |-> CASE n.status = "returned" -> "ok"
                                   [] n.status = "stopped" -> "invalid"
                                   [] OTHER -> "raised",
                     found |-> found,
                     plan |-> n.plan]
            ELSE Attempt(rs, i + 1)

\* generate_diet(user); key is whether get_client finds GOOGLE_API_KEY (it
\* stops the run where it does not).
generate_diet(key, rs) ==
    IF ~key THEN [requests |-> 0, outcome |-> "nokey", found |-> JNull, plan |-> NoPlan]
    ELSE Attempt(rs, 1)

MealToks(dish, cal) == <<LB, TKey("dish"), TStr(dish), Comma, TKey("calories"), cal, RB>>

DayToks(day, meals) == <<LB, TKey(day), LS>> \o meals \o <<RS, RB>>

Said(toks) == [err |-> FALSE, text |-> toks]

RespPlan == Said(DayToks("Monday", MealToks(<<"P">>, TInt(25))))

RespFenced ==
    Said(<<Word, FenceJson, LB, TKey("plan")>>
         \o DayToks("Tuesday", MealToks(<<"T">>, TStr(<<"3", "0", "k", "c", "a", "l">>))
                               \o <<Comma>> \o MealToks(<<"R">>, TInt(0)))
         \o <<RB, Fence>>)

RespEmpty == Said(<<LB, RB>>)

RespProse == Said(<<Word, Word>>)

RespZero == Said(DayToks("Monday", MealToks(<<"P">>, TInt(0))))

RespNoDays == Said(<<LB, TKey("note"), TStr(<<"x">>), Comma, TKey("days"), TInt(7), RB>>)

RespError == [err |-> TRUE, text |-> <<>>]

Responses == { RespPlan, RespFenced, RespEmpty, RespProse, RespZero, RespNoDays,
               RespError }

\* what the provider may answer to the requests of one generate_diet call
Runs == [1..Attempts -> Responses]

\* no request is made: the provider answers nothing
Unasked == [i \in 1..Attempts |-> RespError]

\* What the "Generate New Diet" button does with generate_diet's answer:
\* st.session_state.diet = generate_diet(user) is reached only when the call
\* returns, and so are the load, the update and the save of the plans file.
GenerateReport(s, key, rs) ==
    LET g == generate_diet(key, rs)
    IN [op |-> "generate", s |-> s, key |-> key, rs |-> rs,
        requests |-> g.requests, outcome |-> g.outcome, found |-> g.found,
        plan |-> g.plan]

\* The "Generate New Diet" button of a logged-in session.
Generate(s, key, rs) ==
    /\ UserTruthy(s)
    /\ ret' = GenerateReport(s, key, rs)
    /\ IF ret'.outcome = "ok"
       THEN /\ session' = [session EXCEPT ![s].diet = SomeDiet(ret'.plan)]
            /\ diets' = [diets EXCEPT ![session[s].user.email] = SomeDiet(ret'.plan)]
       ELSE UNCHANGED <<session, diets>>
    /\ UNCHANGED <<users, history, clock, first, text, parsed, raw, nres,
                   pc, local, pending, written, chart>>

Pwd == <<"p">>

\* Two accounts exist (each created by a signup), nobody is logged in.
TwoAccounts ==
    /\ users = signup(signup(NoUsers, "a@x.com", Pwd).users, "b@x.com", Pwd).users
    /\ first = users

InitGen ==
    /\ TwoAccounts
    /\ history = [e \in Emails |-> <<>>]
    /\ diets = [e \in Emails |-> NoDiet]
    /\ session = [s \in Sessions |-> NewSession]
    /\ clock = 1
    /\ ret = Idle
    /\ IdleExtract /\ IdleNorm /\ IdleRace /\ IdleChart

NextGen ==
    \/ \E e \in Emails, p \in Passwords : Login(1, e, p)
    \/ Reconnect(1)
    \/ \E rs \in Runs : Generate(1, TRUE, rs)
    \/ Generate(1, FALSE, Unasked)

SpecGen == InitGen /\ [][NextGen]_vars

\* ------------------------------------------------------------ tracker

\* the last calendar date the clock reaches
MaxDate == 2

\* the quantities a session enters, in halves (the widget steps by 0.5 from
\* 0.0 to 5.0)
QtyHalves == {1, 3}

\* TODAY_DATE = now_ist.date().isoformat(), as a day number
TODAY_DATE == clock

\* TODAY_NAME = now_ist.strftime("%A")
TODAY_NAME == VALID_DAYS[((clock - 1) % 7) + 1]

RECURSIVE SumCalories(_)
\* planned = sum(m["calories"] for m in meals)
SumCalories(meals) ==
    IF meals = <<>> THEN 0 ELSE meals[1].calories + SumCalories(Tail(meals))

RECURSIVE SumEaten(_, _, _)
\* twice the float the loop adds up: calories * qty for each meal ticked
SumEaten(meals, eaten, qty) ==
    IF meals = <<>> THEN 0
    ELSE (IF eaten[1] THEN meals[1].calories * qty[1] ELSE 0)
         + SumEaten(Tail(meals), Tail(eaten), Tail(qty))

\* the record the save handler builds for the selected day (today)
TodayRecord(plan, day, eaten, qty) ==
    [day |-> day,
     planned |-> SumCalories(plan[day]),
     consumed |-> SumEaten(plan[day], eaten, qty) \div 2]

\* the record appended to the user's history, not stored under its date
PutRecord_append(doc, user, date, rec) ==
    [doc EXCEPT ![user] = Append(@, [k |-> date, v |-> rec])]

\* history.setdefault(user, {}); history[user][TODAY_DATE] = rec
PutRecord(doc, user, date, rec) == [doc EXCEPT ![user] = DictPut(@, date, rec)]

\* the inputs of the widgets of today's meals
Ticks(s) == [1..Len(session[s].diet.plan[TODAY_NAME]) -> BOOLEAN]
Amounts(s) == [1..Len(session[s].diet.plan[TODAY_NAME]) -> QtyHalves]

\* The "Save / Update Today" button: shown to a logged-in session that has a
\* plan, while the selected day is today.
SaveToday(s) ==
    /\ UserTruthy(s)
    /\ DietTruthy(s)
    /\ TODAY_NAME \in DOMAIN session[s].diet.plan
    /\ pc[s] = "idle"
    /\ \E eaten \in Ticks(s), qty \in Amounts(s) :
          ret' = [op |-> "save", s |-> s, user |-> session[s].user.email,
                  date |-> TODAY_DATE,
                  had |-> \E i \in 1..Len(history[session[s].user.email]) :
                             history[session[s].user.email][i].k = TODAY_DATE,
                  rec |-> TodayRecord(session[s].diet.plan, TODAY_NAME, eaten, qty)]
    /\ history' = PutRecord(history, ret'.user, ret'.date, ret'.rec)
    /\ UNCHANGED <<users, diets, session, clock, first, text, parsed, raw, nres,
                   pc, local, pending, written, chart>>

\* Midnight in Asia/Kolkata.
Tick ==
    /\ clock < MaxDate
    /\ clock' = clock + 1
    /\ ret' = [op |-> "tick"]
    /\ UNCHANGED <<users, diets, history, session, first, text, parsed, raw, nres,
                   pc, local, pending, written, chart>>

Meal(dish, cal) == JObj(<<P("dish", JStr(dish)), P("calories", JInt(cal))>>)

\* a plan for every day of the week, one meal of cal calories a day
WeekOf(cal) ==
    normalize_diet_plan(
        JObj([i \in 1..7 |-> P(VALID_DAYS[i], JList(<<Meal(<<"P">>, cal + i)>>))])).plan

PlanA == WeekOf(24)
PlanB == WeekOf(30)

\* Two accounts exist and each has generated a plan for the week.
TwoPlans ==
    /\ TwoAccounts
    /\ diets = [e \in Emails |->
                  CASE e = "a@x.com" -> SomeDiet(PlanA)
                    [] e = "b@x.com" -> SomeDiet(PlanB)
                    [] OTHER -> NoDiet]

InitHist ==
    /\ TwoPlans
    /\ history = [e \in Emails |-> <<>>]
    /\ session = [s \in Sessions |-> NewSession]
    /\ clock = 1
    /\ ret = Idle
    /\ IdleExtract /\ IdleNorm /\ IdleRace /\ IdleChart

NextHist ==
    \/ \E e \in Emails, p \in Passwords : Login(1, e, p)
    \/ Reconnect(1)
    \/ Tick
    \/ SaveToday(1)

SpecHist == InitHist /\ [][NextHist]_vars

\* ------------------------------------------------------------ weekly chart

\* df.tail(7)
ChartWindow == 7

DayAbbr == <<"Mon", "Tue", "Wed", "Thu", "Fri", "Sat", "Sun">>

RECURSIVE InsertByDate(_, _)
InsertByDate(sorted, pair) ==
    IF sorted = <<>> THEN <<pair>>
    ELSE IF pair.k < sorted[1].k THEN <<pair>> \o sorted
    ELSE <<sorted[1]>> \o InsertByDate(Tail(sorted), pair)

RECURSIVE SortByDate(_)
\* df.sort_index() on the date index
SortByDate(pairs) ==
    IF pairs = <<>> THEN <<>>
    ELSE InsertByDate(SortByDate(Tail(pairs)), pairs[1])

\* head(n) for tail(n)
TailOf_head(seq, n) == IF Len(seq) <= n THEN seq ELSE SubSeq(seq, 1, n)

\* seq.tail(n)
TailOf(seq, n) == IF Len(seq) <= n THEN seq ELSE SubSeq(seq, Len(seq) - n + 1, Len(seq))

\* The weekly chart section for the history hist of the current user: what
\* the two ax.plot calls are given.
WeeklyChart(hist) ==
    IF hist = <<>> THEN NoChart
    ELSE LET last_7 == TailOf(SortByDate(hist), ChartWindow)
         IN [shown |-> TRUE,
             dates |-> [i \in 1..Len(last_7) |-> last_7[i].k],
             labels |-> [i \in 1..Len(last_7) |-> DayAbbr[((last_7[i].k - 1) % 7) + 1]],
             planned |-> [i \in 1..Len(last_7) |-> last_7[i].v.planned],
             consumed |-> [i \in 1..Len(last_7) |-> last_7[i].v.consumed]]

\* A script run of a logged-in session reaches the chart section.
RenderChart(s) ==
    /\ UserTruthy(s)
    /\ ~chart.shown
    /\ chart' = WeeklyChart(history[session[s].user.email])
    /\ ret' = [op |-> "chart", s |-> s]
    /\ UNCHANGED <<users, diets, history, session, clock, first, text, parsed, raw, nres,
                   pc, local, pending, written>>

\* the last date a generated history holds
MaxChartDate == 9

\* the record a save on date d leaves: the day's name, the plan's calories
\* of that day, and what of it was eaten
SavedOn(d, eaten) ==
    TodayRecord(PlanA, VALID_DAYS[((d - 1) % 7) + 1], <<eaten>>, <<3>>)

RECURSIVE Ascending(_, _)
\* the pairs of the dates D from date d on, by date
Ascending(D, d) ==
    IF d > MaxChartDate THEN <<>>
    ELSE (IF d \in D THEN <<P(d, SavedOn(d, d % 3 # 0))>> ELSE <<>>) \o Ascending(D, d + 1)

\* the last two pairs exchanged: a save whose run began before midnight and
\* loaded the file after the next day's save
LateSave(pairs) ==
    IF Len(pairs) < 2 THEN pairs
    ELSE SubSeq(pairs, 1, Len(pairs) - 2) \o <<pairs[Len(pairs)], pairs[Len(pairs) - 1]>>

Histories ==
    { Ascending(D, 1) : D \in SUBSET (1..MaxChartDate) }
    \cup { LateSave(Ascending(D, 1)) : D \in SUBSET (1..MaxChartDate) }

InitChart ==
    /\ TwoPlans
    /\ \E h \in Histories : history = [e \in Emails |-> IF e = "a@x.com" THEN h ELSE <<>>]
    /\ session = [s \in Sessions |->
                    IF s = 1 THEN LoggedIn("a@x.com", diets["a@x.com"]) ELSE NewSession]
    /\ clock = MaxChartDate
    /\ ret = Idle
    /\ IdleExtract /\ IdleNorm /\ IdleRace /\ IdleChart

NextChart == RenderChart(1)

SpecChart == InitChart /\ [][NextChart]_vars

\* ------------------------------------------------------------ two sessions

\* the quantity widgets left at their value of 1.0
DefaultAmounts(s) == [i \in 1..Len(session[s].diet.plan[TODAY_NAME]) |-> 2]

\* The save handler up to load_json: the script run fixes TODAY_DATE and the
\* record, and reads data/history.json.
LoadHistory(s) ==
    /\ UserTruthy(s)
    /\ DietTruthy(s)
    /\ TODAY_NAME \in DOMAIN session[s].diet.plan
    /\ pc[s] = "idle"
    /\ \E eaten \in Ticks(s) :
          pending' = [pending EXCEPT ![s] =
                         [date |-> TODAY_DATE,
                          rec |-> TodayRecord(session[s].diet.plan, TODAY_NAME, eaten,
                                              DefaultAmounts(s))]]
    /\ local' = [local EXCEPT ![s] = history]
    /\ pc' = [pc EXCEPT ![s] = "loaded"]
    /\ ret' = [op |-> "load", s |-> s]
    /\ UNCHANGED <<users, diets, history, session, clock, first, text, parsed, raw, nres,
                   written, chart>>

\* a save that puts its record into the file as it is now, not as loaded
StoredBy_current(s) ==
    PutRecord(history, session[s].user.email, pending[s].date, pending[s].rec)

\* What save_json leaves in data/history.json: the document the handler
\* loaded, with its record put in.
StoredBy(s) == PutRecord(local[s], session[s].user.email, pending[s].date, pending[s].rec)

\* The rest of the save handler: the update of the loaded document and
\* save_json, which rewrites the whole file.
StoreHistory(s) ==
    /\ pc[s] = "loaded"
    /\ history' = StoredBy(s)
    /\ pc' = [pc EXCEPT ![s] = "idle"]
    /\ written' = written \cup {[user |-> session[s].user.email, date |-> pending[s].date]}
    /\ ret' = [op |-> "store", s |-> s]
    /\ UNCHANGED <<users, diets, session, clock, first, text, parsed, raw, nres,
                   local, pending, chart>>

\* Both sessions are logged in to the same account, which has a plan.
InitRace ==
    /\ TwoPlans
    /\ history = [e \in Emails |-> <<>>]
    /\ session = [s \in Sessions |-> LoggedIn("a@x.com", diets["a@x.com"])]
    /\ clock = 1
    /\ ret = Idle
    /\ IdleExtract /\ IdleNorm /\ IdleRace /\ IdleChart

NextRace ==
    \/ Tick
    \/ \E s \in Sessions : LoadHistory(s)
    \/ \E s \in Sessions : StoreHistory(s)

SpecRace == InitRace /\ [][NextRace]_vars

\* ------------------------------------------------------------ extraction runs

\* the longest response text generated, in tokens
MaxTextLen == 4

ExtractTokens == {LB, RB, TKey("a"), TInt(1), Comma, Word, Fence}

\* One call of extract_json.
ExtractStep ==
    /\ ~parsed.done
    /\ parsed' = [done |-> TRUE, v |-> extract_json(text)]
    /\ ret' = [op |-> "extract"]
    /\ UNCHANGED <<users, diets, history, session, clock, first, text, raw, nres,
                   pc, local, pending, written, chart>>

InitExtract ==
    /\ NoFiles
    /\ session = [s \in Sessions |-> NewSession]
    /\ clock = 1
    /\ ret = Idle
    /\ text \in SeqsUpTo(ExtractTokens, MaxTextLen)
    /\ parsed = [done |-> FALSE, v |-> JNull]
    /\ IdleNorm /\ IdleRace /\ IdleChart

NextExtract == ExtractStep

SpecExtract == InitExtract /\ [][NextExtract]_vars

\* ------------------------------------------------------------ properties

\* C1.  A signup whose email is already in the credential store returns
\* False and leaves the store as it was; a signup whose email is absent
\* stores hash(password) under that email, changes no other entry and
\* returns True.  So every stored digest is the one the email's first
\* successful signup wrote.
C1_SignupInsertsIfAbsent ==
    [][ret'.op = "signup" =>
          /\ ret'.email \in DOMAIN users =>
                ~ret'.result /\ users' = users
          /\ ret'.email \notin DOMAIN users =>
                /\ ret'.result
                /\ DOMAIN users' = DOMAIN users \cup {ret'.email}
                /\ users'[ret'.email] = hash_password(ret'.pwd)
                /\ \A e \in DOMAIN users : users'[e] = users[e]
          /\ DOMAIN first' = DOMAIN users'
          /\ \A e \in DOMAIN users' : users'[e] = first'[e]]_vars

\* A second signup of a registered email, under another password, was
\* refused and the stored digest is still the first one.
C1_Witness ==
    /\ ret.op = "signup"
    /\ ~ret.result
    /\ ret.email \in DOMAIN users
    /\ users[ret.email] # hash_password(ret.pwd)
    /\ users[ret.email] = first[ret.email]

\* C2.  login(email, password) returns true exactly when the email is in the
\* store and the stored digest equals hash_password(password); the login
\* never changes the store; the session user becomes the email only when
\* login returned true, and is left alone otherwise.
C2_LoginVerifies ==
    [][ret'.op = "login" =>
          /\ ret'.result =>
                \E e \in DOMAIN users :
                    e = ret'.email /\ users[e] = hash_password(ret'.pwd)
          /\ ~ret'.result =>
                \A e \in DOMAIN users :
                    e # ret'.email \/ users[e] # hash_password(ret'.pwd)
          /\ users' = users
          /\ ret'.result => session'[ret'.s].user = [set |-> TRUE, email |-> ret'.email]
          /\ ~ret'.result => session' = session]_vars

\* A login of a registered email under a password that is not the stored one
\* was refused, the session still logged out.
C2_Witness ==
    /\ ret.op = "login"
    /\ ~ret.result
    /\ ret.email \in DOMAIN users
    /\ ~session[ret.s].user.set

\* the list raw holds under day d once unwrapped
C3_Source(d) == DictGet(Unwrap(raw), d).kids

\* entry e holds, under one of the calorie field names, a value that coerces to n
C3_Coerces(e, n) ==
    \E f \in {"calories", "kcal", "cal"} :
        CoerceCalories(DictGet(e, f)) = [ok |-> TRUE, n |-> n]

\* entry e holds a calorie field that coerces to an integer above 0
C3_Positive(e) ==
    \E f \in {"calories", "kcal", "cal"} :
        CoerceCalories(DictGet(e, f)).ok /\ CoerceCalories(DictGet(e, f)).n > 0

\* C3.  A plan normalize_diet_plan returns is well formed: its keys are
\* canonical weekday names, every kept day has a non-empty list, every meal
\* has a non-empty dish and an integer calories value above 0 that is the
\* coerced value of one of the entry's calorie fields; an entry with no
\* calorie field coercing to a positive integer is not kept.
C3_ReturnedPlanWellFormed ==
    nres.status = "returned" =>
        /\ DOMAIN nres.plan \subseteq {VALID_DAYS[i] : i \in 1..7}
        /\ \A d \in DOMAIN nres.plan :
              /\ nres.plan[d] # <<>>
              /\ \A j \in 1..Len(nres.plan[d]) :
                    /\ Truthy(nres.plan[d][j].dish)
                    /\ nres.plan[d][j].calories \in Nat \ {0}
                    /\ \E i \in 1..Len(C3_Source(d)) :
                          C3_Coerces(C3_Source(d)[i], nres.plan[d][j].calories)
              /\ Len(nres.plan[d]) <=
                    Cardinality({i \in 1..Len(C3_Source(d)) : C3_Positive(C3_Source(d)[i])})

\* A plan was returned for a day whose list held an entry with zero
\* calories beside an entry whose calories came as text: one meal is kept.
C3_Witness ==
    /\ nres.status = "returned"
    /\ \E d \in DOMAIN nres.plan :
          /\ Len(C3_Source(d)) = 2
          /\ Len(nres.plan[d]) = 1
          /\ nres.plan[d][1].calories = 25
          /\ \E i \in 1..2 : DictGet(C3_Source(d)[i], "calories") = JStr(Chars2)
          /\ \E i \in 1..2 : /\ DictGet(C3_Source(d)[i], "calories") = JInt(0)
                             /\ DictGet(C3_Source(d)[i], "kcal") = JNull

\* how the weekday lookup on the dict obj ends
C5_LookupOn(obj) ==
    IF WeekdayLookup(obj).raised THEN [status |-> "raised", plan |-> NoPlan]
    ELSE IF DOMAIN WeekdayLookup(obj).final = {} THEN [status |-> "stopped", plan |-> NoPlan]
    ELSE [status |-> "returned", plan |-> WeekdayLookup(obj).final]

\* C5.  For a raw object with exactly one key whose value is an object, the
\* weekday lookup is done on that inner object, one level down and no
\* further; for any other raw object it is done on the raw object itself.
C5_UnwrapsOneLevel ==
    nres.status # "none" =>
        IF Len(raw.kids) = 1 /\ raw.kids[1].v.t = "obj"
        THEN nres = C5_LookupOn(raw.kids[1].v)
        ELSE nres = C5_LookupOn(raw)

\* A plan inside two envelopes was normalized: the lookup ran on the inner
\* envelope, found no weekday and stopped, though the plan inside is valid.
C5_Witness ==
    /\ nres.status = "stopped"
    /\ Len(raw.kids) = 1
    /\ raw.kids[1].v.t = "obj"
    /\ Len(raw.kids[1].v.kids) = 1
    /\ raw.kids[1].v.kids[1].v.t = "obj"
    /\ C5_LookupOn(raw.kids[1].v.kids[1].v).status = "returned"

\* normalize_diet_plan was called in the generate that r reports
C4_Called(r) == r.op = "generate" /\ r.found # JNull

\* no weekday of obj holds a list with a meal that is kept
C4_ZeroDays(obj) ==
    \A i \in 1..7 :
        \/ DictGet(obj, VALID_DAYS[i]).t # "list"
        \/ \A j \in 1..Len(DictGet(obj, VALID_DAYS[i]).kids) :
              ~CleanMeal(DictGet(obj, VALID_DAYS[i]).kids[j]).keep

\* some weekday of obj holds a list with an entry that is no dict
C4_BadEntry(obj) ==
    \E i \in 1..7 :
        /\ DictGet(obj, VALID_DAYS[i]).t = "list"
        /\ \E j \in 1..Len(DictGet(obj, VALID_DAYS[i]).kids) :
              DictGet(obj, VALID_DAYS[i]).kids[j].t # "obj"

\* C4.  When the normalization of the raw plan leaves no day (no valid
\* weekday key, or no valid meal under any weekday), normalize_diet_plan
\* returns no plan and the generate action ends there: the session's plan
\* and the plans on file are what they were.
C4_ZeroDaysIsTerminal ==
    [][(C4_Called(ret') /\ C4_ZeroDays(Unwrap(ret'.found))) =>
          /\ ret'.outcome # "ok"
          /\ ~C4_BadEntry(Unwrap(ret'.found)) => ret'.outcome = "invalid"
          /\ session' = session
          /\ diets' = diets]_vars

\* A session that holds a plan generated again, the provider answered a
\* plan with no valid meal, and the plan held and the plan on file remain.
C4_Witness ==
    /\ ret.op = "generate"
    /\ ret.outcome = "invalid"
    /\ C4_ZeroDays(Unwrap(ret.found))
    /\ session[ret.s].diet.has
    /\ diets[session[ret.s].user.email] = session[ret.s].diet

\* the dates of the pairs of a user's history
C6_Dates(pairs) == {pairs[i].k : i \in 1..Len(pairs)}

\* the pairs of a user's history under another date than d
C6_Others(pairs, d) == {pairs[i] : i \in {j \in 1..Len(pairs) : pairs[j].k # d}}

\* C6.  After a "Save / Update Today" the history holds exactly one record
\* for the user and the date, carrying the day, planned and consumed values
\* of that save; every other record of every user is as before; a save of
\* the values already on file for the date leaves the history as it is, and
\* a save on a date already on file adds no record.
C6_SaveOverwrites ==
    [][ret'.op = "save" =>
          /\ Cardinality({i \in 1..Len(history'[ret'.user]) :
                             history'[ret'.user][i].k = ret'.date}) = 1
          /\ DictGet([kids |-> history'[ret'.user]], ret'.date) = ret'.rec
          /\ ret'.rec.day = VALID_DAYS[((ret'.date - 1) % 7) + 1]
          /\ \A e \in Emails \ {ret'.user} : history'[e] = history[e]
          /\ C6_Others(history'[ret'.user], ret'.date) = C6_Others(history[ret'.user], ret'.date)
          /\ \A e \in Emails : Cardinality(C6_Dates(history'[e])) = Len(history'[e])
          /\ ret'.date \in C6_Dates(history[ret'.user]) =>
                Len(history'[ret'.user]) = Len(history[ret'.user])
          /\ (/\ ret'.date \in C6_Dates(history[ret'.user])
              /\ DictGet([kids |-> history[ret'.user]], ret'.date) = ret'.rec) =>
                history' = history]_vars

\* A save replaced the record of a date already on file, next to the record
\* of an earlier date.
C6_Witness ==
    /\ ret.op = "save"
    /\ ret.had
    /\ Len(history[ret.user]) = 2
    /\ history[ret.user][2] = [k |-> ret.date, v |-> ret.rec]
    /\ ret.rec.consumed > 0

\* the text holds a span from its first "{" to its last "}" that is JSON
C7_Parseable(r) ==
    /\ ~r.err
    /\ LET span == RegexSpan(StripFences(r.text))
       IN /\ span # <<>>
          /\ LET p == ParseValue(span, 1) IN p.ok /\ p.nxt = Len(span) + 1

\* C7 as claimed.  generate_diet makes at most 2 requests, the second only
\* if the first attempt did not produce parseable JSON; if both attempts
\* fail to produce parseable JSON the operation fails and no plan is
\* returned, assigned or persisted.
C7_SecondOnlyIfUnparseable ==
    [][ret'.op = "generate" =>
          /\ ret'.requests <= 2
          /\ ret'.requests = 2 => ~C7_Parseable(ret'.rs[1])
          /\ (/\ ret'.key
              /\ \A i \in 1..2 : ~C7_Parseable(ret'.rs[i])) =>
                /\ ret'.outcome \in {"failed", "raised"}
                /\ ret'.plan = NoPlan
                /\ session' = session
                /\ diets' = diets]_vars

\* C7 as amended.  generate_diet makes at most 2 requests, the second only
\* if the first request returned and its attempt produced no JSON or the
\* empty object; if both attempts fail to produce parseable JSON the
\* operation fails and no plan is returned, assigned or persisted.
C7_SecondOnlyIfNothingUsable ==
    [][ret'.op = "generate" =>
          /\ ret'.requests <= 2
          /\ ret'.requests = 2 =>
                /\ ~ret'.rs[1].err
                /\ \/ ~C7_Parseable(ret'.rs[1])
                   \/ JsonLoads(RegexSpan(StripFences(ret'.rs[1].text))) = JObj(<<>>)
          /\ (/\ ret'.key
              /\ \A i \in 1..2 : ~ret'.rs[i].err /\ ~C7_Parseable(ret'.rs[i])) =>
                /\ ret'.requests = 2
                /\ ret'.outcome = "failed"
                /\ ret'.plan = NoPlan
                /\ session' = session
                /\ diets' = diets]_vars

\* The provider answered prose, then prose again: two requests were made
\* and the generation failed, the session's plan left as it was.
C7_Witness ==
    /\ ret.op = "generate"
    /\ ret.requests = 2
    /\ ret.outcome = "failed"
    /\ \A i \in 1..2 : ~ret.rs[i].err /\ ~C7_Parseable(ret.rs[i])
    /\ session[ret.s].diet.has

\* the braces of toks[i..j]: as many "}" as "{", and fewer at every point before j
C8_Balanced(toks, i, j) ==
    /\ toks[i].t = "{"
    /\ toks[j].t = "}"
    /\ \A k \in i..j :
          LET opened == Cardinality({m \in i..k : toks[m].t = "{"})
              closed == Cardinality({m \in i..k : toks[m].t = "}"})
          IN IF k = j THEN opened = closed ELSE opened > closed

\* the first balanced {...} span of toks, the empty sequence where it has none
C8_FirstBalanced(toks) ==
    LET starts == {i \in 1..Len(toks) : \E j \in i..Len(toks) : C8_Balanced(toks, i, j)}
    IN IF starts = {} THEN <<>>
       ELSE LET i == CHOOSE a \in starts : \A b \in starts : a <= b
            IN SubSeq(toks, i, CHOOSE j \in i..Len(toks) : C8_Balanced(toks, i, j))

\* C8.  extract_json, the code-fence markers removed, extracts the first
\* balanced {...} span of the text and returns its parse as JSON.
C8_ParsesFirstBalancedSpan ==
    parsed.done =>
        parsed.v = IF C8_FirstBalanced(StripFences(text)) = <<>> THEN JNull
                   ELSE JsonLoads(C8_FirstBalanced(StripFences(text)))

\* the dates of a user's history
C9_Dates(h) == {h[i].k : i \in 1..Len(h)}

\* the smaller of two numbers
C9_Min(a, b) == IF a <= b THEN a ELSE b

\* C9.  The chart's planned and consumed series are aligned, have length
\* min(7, number of records) and are the records of the 7 latest dates in
\* ascending date order: no older record is plotted and no date is filled in.
C9_ChartIsLastSeven ==
    chart.shown =>
        LET h == history[session[1].user.email]
            n == Len(chart.dates)
        IN /\ n = C9_Min(7, Len(h))
           /\ Len(chart.planned) = n /\ Len(chart.consumed) = n /\ Len(chart.labels) = n
           /\ \A i \in 1..(n - 1) : chart.dates[i] < chart.dates[i + 1]
           /\ \A i \in 1..n :
                 /\ chart.dates[i] \in C9_Dates(h)
                 /\ chart.planned[i] = DictGet([kids |-> h], chart.dates[i]).planned
                 /\ chart.consumed[i] = DictGet([kids |-> h], chart.dates[i]).consumed
           /\ \A d \in C9_Dates(h) :
                 (\A i \in 1..n : chart.dates[i] # d) => \A i \in 1..n : d < chart.dates[i]

\* A history of 8 records, one date missing among them and the last two
\* not in date order, was plotted: 7 points, the oldest record left out.
C9_Witness ==
    /\ chart.shown
    /\ Len(history[session[1].user.email]) = 8
    /\ history[session[1].user.email][7].k > history[session[1].user.email][8].k
    /\ Len(chart.dates) = 7
    /\ \E i \in 1..6 : chart.dates[i + 1] > chart.dates[i] + 1

\* C10.  The write of the save handler is no transaction: save_json replaces
\* the whole document by the one the session loaded with its own record put
\* in, whatever another session wrote in between.
C10_WritesWhatItLoaded ==
    [][ret'.op = "store" =>
          history' = PutRecord(local[ret'.s], session[ret'.s].user.email,
                               pending[ret'.s].date, pending[ret'.s].rec)]_vars

\* Both sessions of one account have completed a save, and the record one of
\* them wrote is gone from the history: the other's write replaced the file.
C10_Witness ==
    /\ \A s \in Sessions : pc[s] = "idle"
    /\ session[1].user = session[2].user
    /\ \E w \in written :
          \A i \in 1..Len(history[w.user]) : history[w.user][i].k # w.date
====
